---- MODULE Spec2Model ----
(***************************************************************************)
(* Model of anritsuparser.SpectrumData: the constructor, the line-by-line  *)
(* decoder parseData and the depth-first extractor parseSpectrum.          *)
(*                                                                         *)
(* A Python str is a sequence of one-character strings.  A Python dict is  *)
(* a sequence of entries [k, t, v] in insertion order; t is "str" for a    *)
(* scalar value (v a str) and "dict" for a nested dict (v its entries).    *)
(***************************************************************************)
EXTENDS Integers, Sequences, FiniteSets, TLC

\* Longest input, in blocks.
MaxBlocks == 4

VARIABLES pc, mode, data, result, lvl, i, exc, parsed_data, spectrum, last, scanned

vars == <<pc, mode, data, result, lvl, i, exc, parsed_data, spectrum, last, scanned>>

-----------------------------------------------------------------------------
\* The blocks the inputs are made of: single lines, and a header line with
\* the `<...>` line that follows it.

NL == "\n"

HeaderTrace == <<"#", " ", "B", "e", "g", "i", "n", " ", "T", "r", "a", "c", "e">>
HeaderMeta == <<"#", " ", "M", "E", "T", "A", "D", "A", "T", "A">>
HeaderSweep == <<"#", " ", "S", "w", "e", "e", "p">>
DoneLine == <<"#", " ", "T", "r", "a", "c", "e", " ", "D", "o", "n", "e">>
AnnotLine == <<"<", "a", "=", "b", ">">>
PointLine == <<"P", "_", "0", "=", "-", "4", ".", "5", " ", ",", " ", "1", "0", ".", "0", " ", "M", "H", "z">>
BarePLine == <<"P", "_", "=", "1", " ", ",", " ", "2", " ", "M">>
EmptyLine == <<>>

Blocks ==
    {HeaderTrace, HeaderMeta, DoneLine, AnnotLine, PointLine, BarePLine, EmptyLine,
     HeaderTrace \o <<NL>> \o AnnotLine, HeaderSweep \o <<NL>> \o AnnotLine}

RECURSIVE Join(_)
Join(bs) ==
    IF bs = <<>> THEN <<>>
    ELSE IF Len(bs) = 1 THEN bs[1]
    ELSE bs[1] \o <<NL>> \o Join(Tail(bs))

\* Every text of at most MaxBlocks blocks joined by newlines; a final
\* EmptyLine makes the text end with a newline.
Texts == {Join(bs) : bs \in UNION {[1..n -> Blocks] : n \in 0..MaxBlocks}}

-----------------------------------------------------------------------------
\* str methods.

StartsWith(s, p) == Len(s) >= Len(p) /\ SubSeq(s, 1, Len(p)) = p

EndsWith(s, p) == Len(s) >= Len(p) /\ SubSeq(s, Len(s) - Len(p) + 1, Len(s)) = p

\* Index of the first character of s, from j on, that is not in chars;
\* Len(s) + 1 if there is none.
RECURSIVE StripFrom(_, _, _)
StripFrom(s, chars, j) ==
    IF j <= Len(s) /\ s[j] \in chars THEN StripFrom(s, chars, j + 1) ELSE j

\* Index of the last character of s, up to j, that is not in chars; 0 if
\* there is none.
RECURSIVE StripTo(_, _, _)
StripTo(s, chars, j) ==
    IF j >= 1 /\ s[j] \in chars THEN StripTo(s, chars, j - 1) ELSE j

\* s.strip(chars): drops from both ends every character that is in chars.
Strip(s, chars) == SubSeq(s, StripFrom(s, chars, 1), StripTo(s, chars, Len(s)))

\* s.count(c) for a one-character c.
Count(s, c) == Cardinality({j \in 1..Len(s) : s[j] = c})

\* Index of the first occurrence of sep in s, 0 if there is none.
Find(s, sep) ==
    LET hits == {j \in 1..(Len(s) - Len(sep) + 1) : SubSeq(s, j, j + Len(sep) - 1) = sep}
    IN  IF hits = {} THEN 0 ELSE CHOOSE j \in hits : \A m \in hits : j <= m

\* s.split(sep)
RECURSIVE Split(_, _)
Split(s, sep) ==
    LET j == Find(s, sep)
    IN  IF j = 0 THEN <<s>>
        ELSE <<SubSeq(s, 1, j - 1)>> \o Split(SubSeq(s, j + Len(sep), Len(s)), sep)

-----------------------------------------------------------------------------
\* dict operations, insertion-ordered.

Str(s) == [t |-> "str", v |-> s]
Dict(es) == [t |-> "dict", v |-> es]
Entry(key, val) == [k |-> key, t |-> val.t, v |-> val.v]
ValueOf(e) == [t |-> e.t, v |-> e.v]

Keys(d) == [j \in 1..Len(d) |-> d[j].k]

HasKey(d, key) == \E j \in 1..Len(d) : d[j].k = key

GetItem(d, key) == ValueOf(d[CHOOSE j \in 1..Len(d) : d[j].k = key])

\* d[key] = val: an existing key keeps its position, a new key goes last.
SetItem(d, key, val) ==
    IF HasKey(d, key)
    THEN [j \in 1..Len(d) |-> IF d[j].k = key THEN Entry(key, val) ELSE d[j]]
    ELSE Append(d, Entry(key, val))

IsEmptyDict(e) == e.t = "dict" /\ e.v = <<>>

-----------------------------------------------------------------------------
\* parseData

Ok(val) == [err |-> "none", val |-> val]
Raise(kind) == [err |-> kind, val |-> Dict(<<>>)]

RECURSIVE append(_, _, _, _)

\* The dict d after the recursive call r on the value of its last key.
Nested(d, r) ==
    IF r.err # "none" THEN r
    ELSE Ok(Dict([d EXCEPT ![Len(d)] = Entry(d[Len(d)].k, r.val)]))

\* The append helper of parseData.  The recursion descends into the value of
\* the last key; that value may be a str, on which item assignment and
\* .keys() fail.
append(res, key, value, level) ==
    IF level < 0 THEN Raise("ValueError")
    ELSE IF level = 0 THEN
        IF res.t = "str" THEN Raise("TypeError")
        ELSE Ok(Dict(SetItem(res.v, key, value)))
    ELSE IF res.t = "str" THEN Raise("AttributeError")
    ELSE IF res.v = <<>> THEN Raise("IndexError")
    ELSE Nested(res.v, append(ValueOf(res.v[Len(res.v)]), key, value, level - 1))

Max(a, b) == IF a >= b THEN a ELSE b

HashSpace == <<"#", " ">>
Done == <<"D", "o", "n", "e">>
BeginChars == {"B", "e", "g", "i", "n", " "}

\* Lines are indexed from 0 as in the code: data[j] is Line(j).
Line(j) == data[j + 1]

IsDone(line) == StartsWith(line, HashSpace) /\ EndsWith(line, Done)
IsHeader(line) == ~IsDone(line) /\ StartsWith(line, HashSpace)
IsKeyValue(line) == ~StartsWith(line, HashSpace) /\ Count(line, "=") = 1
IsAnnotation(line) == StartsWith(line, <<"<">>) /\ EndsWith(line, <<">">>)

\* line.strip("# ").strip("Begin ")
SectionKey(line) == Strip(Strip(line, {"#", " "}), BeginChars)

\* HeaderLevel without the reset to level 0.
HeaderLevel_Keep(ann, level) == level

\* Lines 114-117: a header followed by a `<...>` line is inserted at level 0.
HeaderLevel(ann, level) == IF ann THEN 0 ELSE level

\* The section opened by the latest header line, until a Done line: its key
\* and the level it was inserted at.
NoSection == [open |-> FALSE, key |-> <<>>, level |-> 0]

\* The line handled by the latest iteration: its kind, index, the level
\* before it, the key it computed, whether append was called, and the
\* section that is open after it.
NoStep == [kind |-> "none", line |-> <<>>, at |-> 0, lvl |-> 0, key |-> <<>>, annotated |-> FALSE, called |-> FALSE, section |-> NoSection]

Init ==
    /\ pc = "new"
    /\ mode = [path |-> "None", data |-> "None", parseAll |-> FALSE]
    /\ data = <<>>
    /\ result = <<>>
    /\ lvl = 0
    /\ i = 0
    /\ exc = "none"
    /\ parsed_data = [set |-> FALSE, v |-> <<>>]
    /\ spectrum = [set |-> FALSE, x |-> <<>>, y |-> <<>>]
    /\ last = NoStep
    /\ scanned = <<>>

\* DoneLevel with the floor at 0.
DoneLevel_Floor0(level) == Max(level - 1, 0)

\* DoneLevel without a floor.
DoneLevel_Decrement(level) == level - 1

\* Line 110: lvl = max(lvl - 1, 1)
DoneLevel(level) == Max(level - 1, 1)

\* Lines 118 and 128 without the skip of the `<...>` line.
Advance_NoSkip(index, ann) == index + 1

\* Lines 118 and 128: the index after a header line.
Advance(index, ann) == IF ann THEN index + 2 ELSE index + 1

\* A `# ... Done` line.
DoneStep ==
    /\ pc = "loop"
    /\ i < Len(data)
    /\ IsDone(Line(i))
    /\ lvl' = DoneLevel(lvl)
    /\ i' = i + 1
    /\ last' = [kind |-> "done", line |-> Line(i), at |-> i, lvl |-> lvl, key |-> <<>>, annotated |-> FALSE, called |-> FALSE, section |-> NoSection]
    /\ UNCHANGED <<pc, mode, data, result, exc, parsed_data, spectrum, scanned>>

\* A header line; data[i+1] is read without a bound check.
HeaderStep ==
    /\ pc = "loop"
    /\ i < Len(data)
    /\ IsHeader(Line(i))
    /\ IF i + 1 >= Len(data)
       THEN /\ pc' = "raised"
            /\ exc' = "IndexError"
            /\ last' = [kind |-> "header", line |-> Line(i), at |-> i, lvl |-> lvl, key |-> <<>>, annotated |-> FALSE, called |-> FALSE, section |-> last.section]
            /\ UNCHANGED <<mode, data, result, lvl, i, parsed_data, spectrum, scanned>>
       ELSE \E ann \in {IsAnnotation(Line(i + 1))}, key \in {SectionKey(Line(i))} :
            \E at \in {HeaderLevel(ann, lvl)} :
            \E r \in {append(Dict(result), key, Dict(<<>>), at)} :
                /\ last' = [kind |-> "header", line |-> Line(i), at |-> i, lvl |-> lvl, key |-> key, annotated |-> ann, called |-> TRUE,
                             section |-> [open |-> r.err = "none", key |-> key, level |-> at]]
                /\ IF r.err # "none"
                   THEN /\ pc' = "raised"
                        /\ exc' = r.err
                        /\ lvl' = at
                        /\ i' = IF ann THEN i + 1 ELSE i
                        /\ UNCHANGED <<mode, data, result, parsed_data, spectrum, scanned>>
                   ELSE /\ result' = r.val.v
                        /\ lvl' = at + 1
                        /\ i' = Advance(i, ann)
                        /\ UNCHANGED <<pc, mode, data, exc, parsed_data, spectrum, scanned>>

\* A line with exactly one "=": append(result, *line.split("="), lvl).
KeyValueStep ==
    /\ pc = "loop"
    /\ i < Len(data)
    /\ IsKeyValue(Line(i))
    /\ \E kv \in {Split(Line(i), <<"=">>)} :
       \E r \in {append(Dict(result), kv[1], Str(kv[2]), lvl)} :
           /\ last' = [kind |-> "keyvalue", line |-> Line(i), at |-> i, lvl |-> lvl, key |-> kv[1], annotated |-> FALSE, called |-> TRUE, section |-> last.section]
           /\ IF r.err # "none"
              THEN /\ pc' = "raised"
                   /\ exc' = r.err
                   /\ UNCHANGED <<mode, data, result, lvl, i, parsed_data, spectrum, scanned>>
              ELSE /\ result' = r.val.v
                   /\ i' = i + 1
                   /\ UNCHANGED <<pc, mode, data, lvl, exc, parsed_data, spectrum, scanned>>

\* Any other line only advances the index.
OtherStep ==
    /\ pc = "loop"
    /\ i < Len(data)
    /\ ~StartsWith(Line(i), HashSpace)
    /\ ~IsKeyValue(Line(i))
    /\ i' = i + 1
    /\ last' = [kind |-> "other", line |-> Line(i), at |-> i, lvl |-> lvl, key |-> <<>>, annotated |-> FALSE, called |-> FALSE, section |-> last.section]
    /\ UNCHANGED <<pc, mode, data, result, lvl, exc, parsed_data, spectrum, scanned>>

\* PruneEmpty with the deletion left out.
PruneEmpty_Keep(d) == d

\* Lines 130-133: every top-level key whose value is {} is deleted.
PruneEmpty(d) == SelectSeq(d, LAMBDA e : ~IsEmptyDict(e))

METADATA == <<"M", "E", "T", "A", "D", "A", "T", "A">>

\* Compress with `del result[k]` left out.
Compress_NoDelete(d) == SetItem(d, METADATA, Dict(SelectSeq(d, LAMBDA e : e.t = "str")))

\* Lines 135-141: the top-level str values move into result['METADATA'].
Compress(d) ==
    LET tmp_dict == SelectSeq(d, LAMBDA e : e.t = "str")
        rest     == SelectSeq(d, LAMBDA e : e.t # "str")
    IN  SetItem(rest, METADATA, Dict(tmp_dict))

\* {k: src[k] for k in order}
RECURSIVE FromKeys(_, _)
FromKeys(order, src) ==
    IF order = <<>> THEN <<>>
    ELSE LET n == Len(order)
         IN  SetItem(FromKeys(SubSeq(order, 1, n - 1), src), order[n], GetItem(src, order[n]))

\* Lines 143-145: ['METADATA'] + list(result.keys())[:-1]
Reorder(d) ==
    LET ks == Keys(d)
    IN  FromKeys(<<METADATA>> \o SubSeq(ks, 1, Len(ks) - 1), d)

\* The loop has ended: lines 130-146, and the caller's assignment of the
\* returned dict to self.parsed_data (line 65 and 50, or line 59).
Finish ==
    /\ pc = "loop"
    /\ i >= Len(data)
    /\ scanned' = result
    /\ result' = Reorder(Compress(PruneEmpty(result)))
    /\ parsed_data' = [set |-> TRUE, v |-> result']
    /\ pc' = "parsed"
    /\ UNCHANGED <<mode, data, lvl, i, exc, spectrum, last>>

-----------------------------------------------------------------------------
\* parseSpectrum

Digits == <<"0", "1", "2", "3", "4", "5", "6", "7", "8", "9">>

\* ascii_int
IsDigit(c) == \E n \in 1..10 : Digits[n] = c

DigitVal(c) == (CHOOSE n \in 1..10 : Digits[n] = c) - 1

\* p_int: x.startswith('P_') and all(map(ascii_int, x[2:]))
p_int(x) == StartsWith(x, <<"P", "_">>) /\ \A j \in 3..Len(x) : IsDigit(x[j])

RECURSIVE ToInt(_)
ToInt(ds) == IF ds = <<>> THEN 0 ELSE 10 * ToInt(SubSeq(ds, 1, Len(ds) - 1)) + DigitVal(ds[Len(ds)])

RECURSIVE Normal(_, _)
Normal(m, e) == IF e > 0 /\ m % 10 = 0 THEN Normal(m \div 10, e - 1) ELSE [m |-> m, e |-> e]

\* m * 10^(-e), negated when neg.
Signed(neg, n) == [err |-> "none", m |-> IF neg THEN 0 - n.m ELSE n.m, e |-> n.e]

\* The digits ds with e of them after the point.
Decimal(neg, ds, e) ==
    IF ds = <<>> \/ \E j \in 1..Len(ds) : ~IsDigit(ds[j])
    THEN [err |-> "ValueError", m |-> 0, e |-> 0]
    ELSE Signed(neg, Normal(ToInt(ds), e))

\* body holds a point at index dot, or none when dot = 0.
Pointed(neg, body, dot) ==
    IF dot = 0 THEN Decimal(neg, body, 0)
    ELSE Decimal(neg, SubSeq(body, 1, dot - 1) \o SubSeq(body, dot + 1, Len(body)), Len(body) - dot)

Unsigned(neg, body) == Pointed(neg, body, Find(body, <<".">>))

Stripped(s) ==
    IF s # <<>> /\ s[1] \in {"-", "+"} THEN Unsigned(s[1] = "-", Tail(s)) ELSE Unsigned(FALSE, s)

\* The conversion to np.double of a str item: surrounding blanks are dropped,
\* then an optional sign and decimal digits with at most one point.  The
\* number m * 10^(-e) is kept as [m, e] with no trailing zero in the
\* fraction; anything else is a ValueError.
ToDouble(tok) == Stripped(Strip(tok, {" "}))

Sep == <<" ", ",", " ">>

\* get_y followed by the conversion: dict_values.split(' , ')[0]
get_y(e) ==
    IF e.t = "dict" THEN [err |-> "AttributeError", m |-> 0, e |-> 0]
    ELSE ToDouble(Split(e.v, Sep)[1])

\* get_x reading index 0 of the split.
get_x_First(e) ==
    IF e.t = "dict" THEN [err |-> "AttributeError", m |-> 0, e |-> 0]
    ELSE ToDouble(Split(Split(e.v, Sep)[1], <<" ">>)[1])

\* get_x followed by the conversion: dict_values.split(' , ')[1].split(' ')[0]
SecondPart(parts) ==
    IF Len(parts) < 2 THEN [err |-> "IndexError", m |-> 0, e |-> 0]
    ELSE ToDouble(Split(parts[2], <<" ">>)[1])

get_x(e) ==
    IF e.t = "dict" THEN [err |-> "AttributeError", m |-> 0, e |-> 0]
    ELSE SecondPart(Split(e.v, Sep))

Num(r) == [m |-> r.m, e |-> r.e]

\* all(map(p_int, keys)) and len(keys) > 0
IsSpectrum(d) == (\A j \in 1..Len(d) : p_int(d[j].k)) /\ Len(d) > 0

\* The first failure among the items, in the order they are converted.
FirstError(items, errs) == items[CHOOSE j \in errs : \A m \in errs : j <= m].err

Stacked(xs, ys, items) ==
    IF \E j \in 1..Len(items) : items[j].err # "none"
    THEN [kind |-> FirstError(items, {j \in 1..Len(items) : items[j].err # "none"}), x |-> <<>>, y |-> <<>>]
    ELSE [kind |-> "array",
          x |-> [j \in 1..Len(xs) |-> Num(xs[j])],
          y |-> [j \in 1..Len(ys) |-> Num(ys[j])]]

Passes(xs, ys) == Stacked(xs, ys, xs \o ys)

\* Lines 177-179: the x pass runs over all values before the y pass; the
\* first item that fails ends the call.
Extract(d) == Passes([j \in 1..Len(d) |-> get_x(d[j])], [j \in 1..Len(d) |-> get_y(d[j])])

\* Lines 182-185: the loop returns from the first dict-valued key it meets
\* in reverse order, whatever the recursive call found.
RECURSIVE search(_)
search(d) ==
    IF IsSpectrum(d) THEN Extract(d)
    ELSE IF \A j \in 1..Len(d) : d[j].t # "dict" THEN [kind |-> "None", x |-> <<>>, y |-> <<>>]
    ELSE search(d[CHOOSE j \in 1..Len(d) : d[j].t = "dict" /\ \A m \in (j + 1)..Len(d) : d[m].t # "dict"].v)

\* Lines 187-189
Found(r) == IF r.kind = "None" THEN [r EXCEPT !.kind = "ValueError"] ELSE r

parseSpectrum(d) == Found(search(d))

-----------------------------------------------------------------------------
\* __init__

PathKinds == {"None", "emptystr", "file", "dir", "missing"}
DataKinds == {"None", "empty", "text"}

\* Lines 24-59 up to the first iteration of parseData's loop.  An empty str
\* is falsy; Path("") is the current directory.
Construct ==
    /\ pc = "new"
    /\ \E p \in PathKinds, d \in DataKinds, pa \in BOOLEAN :
        LET pathTruthy == p \notin {"None", "emptystr"}
            dataTruthy == d = "text"
            cast       == IF p = "emptystr" THEN "dir" ELSE p
            fail(kind) == /\ pc' = "raised"
                          /\ exc' = kind
                          /\ UNCHANGED <<data, result, lvl, i>>
            parse(ts)  == /\ \E t \in ts : data' = Split(t, <<NL>>)
                          /\ result' = <<>>
                          /\ lvl' = 0
                          /\ i' = 0
                          /\ pc' = "loop"
                          /\ UNCHANGED exc
        IN  /\ mode' = [path |-> p, data |-> d, parseAll |-> pa]
            /\ IF pathTruthy /\ dataTruthy THEN fail("Exception")
               ELSE IF dataTruthy /\ pa THEN fail("Exception")
               ELSE IF cast # "None" THEN
                    IF cast = "missing" THEN fail("ValueError")
                    ELSE IF pa /\ cast = "dir" THEN fail("NotImplementedError")
                    ELSE IF ~pa /\ cast = "file" THEN parse(Texts)
                    ELSE fail("ValueError")
               ELSE IF dataTruthy THEN parse(Texts \ {<<>>})
               ELSE /\ pc' = "done"
                    /\ UNCHANGED <<data, result, lvl, i, exc>>
    /\ UNCHANGED <<parsed_data, spectrum, last, scanned>>

\* Line 52 inside try/except ValueError (file), or line 60 (data).
ParseSpectrum ==
    /\ pc = "parsed"
    /\ LET r == parseSpectrum(parsed_data.v)
       IN  IF r.kind = "array"
           THEN /\ spectrum' = [set |-> TRUE, x |-> r.x, y |-> r.y]
                /\ pc' = "done"
                /\ UNCHANGED exc
           ELSE IF r.kind = "ValueError" /\ mode.data # "text"
           THEN /\ pc' = "done"
                /\ UNCHANGED <<spectrum, exc>>
           ELSE /\ pc' = "raised"
                /\ exc' = r.kind
                /\ UNCHANGED spectrum
    /\ UNCHANGED <<mode, data, result, lvl, i, parsed_data, last, scanned>>

Next ==
    \/ Construct
    \/ DoneStep
    \/ HeaderStep
    \/ KeyValueStep
    \/ OtherStep
    \/ Finish
    \/ ParseSpectrum

Spec == Init /\ [][Next]_vars

-----------------------------------------------------------------------------
\* Properties.

\* x matches ^P_[0-9]+$
StrictP(x) == Len(x) >= 3 /\ x[1] = "P" /\ x[2] = "_" /\ \A j \in 3..Len(x) : x[j] \in {"0", "1", "2", "3", "4", "5", "6", "7", "8", "9"}

\* A non-empty Record all of whose keys match ^P_[0-9]+$
StrictSpectrum(d) == d # <<>> /\ \A j \in 1..Len(d) : StrictP(d[j].k)

\* The Record d and every Record nested in it, at any depth.
RECURSIVE Subtrees(_)
Subtrees(d) == {d} \cup UNION {Subtrees(d[j].v) : j \in {m \in 1..Len(d) : d[m].t = "dict"}}

\* parseSpectrum has been called on the decoded Record and has ended.
SpectrumCalled == parsed_data.set /\ pc \in {"done", "raised"}

\* ... and ended with "Spectrum could not be found!", caught or not.
SpectrumNotFound == SpectrumCalled /\ ~spectrum.set /\ (pc = "done" \/ exc = "ValueError")

\* C1: parseSpectrum succeeds whenever some Record of the tree, at any depth,
\* is non-empty with only P_<digits> keys, and reports "not found" only when
\* no Record of the tree is one.
C1_FoundWheneverPresent ==
    SpectrumCalled =>
        /\ (\E d \in Subtrees(parsed_data.v) : StrictSpectrum(d)) => spectrum.set
        /\ SpectrumNotFound => ~\E d \in Subtrees(parsed_data.v) : StrictSpectrum(d)

\* s without the prefix p, when it starts with p.
RemovePrefix(s, p) == IF StartsWith(s, p) THEN SubSeq(s, Len(p) + 1, Len(s)) ELSE s

\* The Record that an insert at the given level writes into.
RECURSIVE ContainerAt(_, _)
ContainerAt(d, level) == IF level = 0 THEN d ELSE ContainerAt(d[Len(d)].v, level - 1)

\* C2: the key a header line inserts is the line without its leading "# "
\* and without a leading "Begin ", every other character kept.
C2_HeaderKeyIsSectionName ==
    (pc = "loop" /\ last.kind = "header") =>
        HasKey(ContainerAt(result, lvl - 1),
               RemovePrefix(RemovePrefix(last.line, <<"#", " ">>), <<"B", "e", "g", "i", "n", " ">>))

\* No parent exists for an insert at level n: on the way down a Record has
\* no key, or its last value is not a Record.
RECURSIVE NoParent(_, _)
NoParent(d, n) ==
    /\ n > 0
    /\ \/ d = <<>>
       \/ d[Len(d)].t # "dict"
       \/ NoParent(d[Len(d)].v, n - 1)

\* C3: an insert at a level N > 0 that has no parent fails with the
\* ValueError of the append helper and with nothing else.
C3_NoParentIsValueError ==
    (pc = "raised" /\ last.called /\ NoParent(result, lvl)) => exc = "ValueError"

\* C4: at every depth the returned Record holds no section that was opened
\* and never populated, that is, no key other than the metadata map whose
\* value is an empty Record.
C4_NoEmptySectionAnywhere ==
    parsed_data.set =>
        \A d \in Subtrees(parsed_data.v) : \A j \in 1..Len(d) :
            IsEmptyDict(d[j]) => (d = parsed_data.v /\ j = 1)

\* C4 as amended: no top-level key other than METADATA holds an empty Record,
\* and every top-level section left empty by the line pass is gone.
C4_NoEmptySectionAtTopLevel ==
    parsed_data.set =>
        /\ \A j \in 1..Len(parsed_data.v) :
            IsEmptyDict(parsed_data.v[j]) => parsed_data.v[j].k = METADATA
        /\ \A j \in 1..Len(scanned) :
            (IsEmptyDict(scanned[j]) /\ scanned[j].k # METADATA) => ~HasKey(parsed_data.v, scanned[j].k)

\* A top-level empty section was pruned while a nested one stayed.
C4_Witness ==
    /\ parsed_data.set
    /\ \E j \in 1..Len(scanned) : IsEmptyDict(scanned[j]) /\ scanned[j].k # METADATA
    /\ \E d \in Subtrees(parsed_data.v) : d # parsed_data.v /\ \E j \in 1..Len(d) : IsEmptyDict(d[j])

\* The top-level scalars at the end of the line pass, as (key, value) pairs.
ScannedScalars == {<<scanned[j].k, scanned[j].v>> : j \in {m \in 1..Len(scanned) : scanned[m].t = "str"}}

\* C5: the first key of the returned Record is METADATA, its value is a flat
\* map of exactly the top-level scalars of the line pass, and no other
\* top-level value is a scalar.
C5_MetadataFirstAndExact ==
    parsed_data.set =>
        LET pd == parsed_data.v
        IN  /\ pd # <<>>
            /\ pd[1].k = METADATA
            /\ pd[1].t = "dict"
            /\ \A j \in 1..Len(pd[1].v) : pd[1].v[j].t = "str"
            /\ {<<pd[1].v[j].k, pd[1].v[j].v>> : j \in 1..Len(pd[1].v)} = ScannedScalars
            /\ Len(pd[1].v) = Cardinality(ScannedScalars)
            /\ \A j \in 2..Len(pd) : pd[j].t = "dict"

\* Scalars were moved next to a section that stayed.
C5_Witness ==
    /\ parsed_data.set
    /\ Cardinality(ScannedScalars) >= 2
    /\ Len(parsed_data.v) >= 2

\* C6: after METADATA the returned Record lists every top-level key that held
\* a non-empty Record at the end of the line pass, contents and relative
\* order unchanged.
C6_SectionsKept ==
    parsed_data.set =>
        Tail(parsed_data.v) = SelectSeq(scanned, LAMBDA e : e.t = "dict" /\ e.v # <<>>)

\* C7: a header line directly followed by a line that starts with "<" and
\* ends with ">" is inserted into the root Record whatever the level was,
\* leaves every other root entry as it was (so the "<...>" line adds no
\* entry), skips the "<...>" line and leaves the level at 1.
C7_AnnotatedHeaderResets ==
    [][(/\ pc = "loop"
        /\ i + 1 < Len(data)
        /\ StartsWith(Line(i), <<"#", " ">>)
        /\ ~EndsWith(Line(i), <<"D", "o", "n", "e">>)
        /\ StartsWith(Line(i + 1), <<"<">>)
        /\ EndsWith(Line(i + 1), <<">">>))
       => /\ pc' = "loop"
          /\ lvl' = 1
          /\ i' = i + 2
          /\ \E key \in {result'[j].k : j \in 1..Len(result')} :
                /\ GetItem(result', key) = Dict(<<>>)
                /\ \A j \in 1..Len(result) : result[j].k # key => result'[j] = result[j]
                /\ Len(result') = IF HasKey(result, key) THEN Len(result) ELSE Len(result) + 1
      ]_vars

\* An annotated header was handled at level 2 or deeper, and its "<...>" line
\* holds one "=".
C7_Witness ==
    /\ pc = "loop"
    /\ last.kind = "header"
    /\ last.annotated
    /\ last.lvl >= 2
    /\ lvl = 1
    /\ Count(Line(last.at + 1), "=") = 1

\* C8: when the input decodes and holds no spectrum subtree, construction
\* completes and parsed_data can be read, in file mode and in data mode.
C8_NotFoundIsNonFatal ==
    (SpectrumCalled /\ ~\E d \in Subtrees(parsed_data.v) : StrictSpectrum(d)) =>
        (pc = "done" /\ parsed_data.set)

\* Positions of " , " in v.
SepPositions(v) == {a \in 1..(Len(v) - 2) : v[a] = " " /\ v[a + 1] = "," /\ v[a + 2] = " "}

\* The part of v before " , ".
PowerPart(v) == SubSeq(v, 1, (CHOOSE a \in SepPositions(v) : TRUE) - 1)

\* The first space-delimited token of the part of v after " , ".
FreqToken(v) ==
    LET a    == CHOOSE b \in SepPositions(v) : TRUE
        rest == SubSeq(v, a + 3, Len(v))
        sp   == {b \in 1..Len(rest) : rest[b] = " "}
    IN  SubSeq(rest, 1, (CHOOSE b \in sp : \A c \in sp : b <= c) - 1)

\* v has the form "<power> , <frequency> <unit>".
WellFormed(v) ==
    /\ Cardinality(SepPositions(v)) = 1
    /\ \E b \in ((CHOOSE a \in SepPositions(v) : TRUE) + 3)..Len(v) : v[b] = " "
    /\ ToDouble(PowerPart(v)).err = "none"
    /\ ToDouble(FreqToken(v)).err = "none"

\* C9: the series returned for a matched subtree of k well-formed values has
\* k elements in x and in y; y[j] is the part of the j-th value before " , "
\* and x[j] the first token of the part after it.
C9_SeriesFollowsValues ==
    spectrum.set =>
        \E d \in Subtrees(parsed_data.v) :
            /\ d # <<>>
            /\ \A j \in 1..Len(d) : d[j].t = "str" /\ WellFormed(d[j].v)
            /\ Len(spectrum.x) = Len(d)
            /\ Len(spectrum.y) = Len(d)
            /\ \A j \in 1..Len(d) :
                /\ spectrum.y[j] = Num(ToDouble(PowerPart(d[j].v)))
                /\ spectrum.x[j] = Num(ToDouble(FreqToken(d[j].v)))

\* A series of two points was returned.
C9_Witness ==
    /\ spectrum.set
    /\ Len(spectrum.x) = 2
    /\ spectrum.x[1] # spectrum.x[2]
    /\ spectrum.x[1] # spectrum.y[1]

\* C10: the search takes a Record for the spectrum exactly when it is
\* non-empty and every key matches ^P_[0-9]+$.
C10_MatchIsStrictPattern ==
    parsed_data.set =>
        \A d \in Subtrees(parsed_data.v) : IsSpectrum(d) <=> StrictSpectrum(d)

\* C11: with parseAll set, construction fails with an error and decodes
\* nothing, whatever path and data are.
C11_ParseAllAlwaysFails ==
    (pc # "new" /\ mode.parseAll) => (pc = "raised" /\ ~parsed_data.set /\ data = <<>>)

\* The Record of the open section: the value of its key in the Record the
\* header wrote into.
OpenSection == GetItem(ContainerAt(result, last.section.level), last.section.key)

\* C13: a key/value line handled while the section of the latest header is
\* open is written into that section's Record, also when the header repeated
\* a key that was already present; the write does not fail.
C13_WriteLandsInOpenSection ==
    (pc \in {"loop", "raised"} /\ last.kind = "keyvalue" /\ last.section.open) =>
        /\ pc = "loop"
        /\ OpenSection.t = "dict"
        /\ HasKey(OpenSection.v, last.key)
        /\ GetItem(OpenSection.v, last.key) = Str(SubSeq(last.line, Len(last.key) + 2, Len(last.line)))

\* C14: a Done line ascends: the level after it is never greater than the
\* level before it.
C14_DoneNeverDescends ==
    (pc = "loop" /\ last.kind = "done") => lvl <= last.lvl

\* C14 as amended: from a level of 2 or more a Done line takes the level down
\* by one; from level 1 it leaves it at 1; from level 0 it raises it to 1.
C14_DoneFloorsAtOne ==
    (pc = "loop" /\ last.kind = "done") =>
        /\ last.lvl >= 2 => lvl = last.lvl - 1
        /\ last.lvl <= 1 => lvl = 1

\* A Done line was handled at level 2, after an earlier Done line.
C14_Witness ==
    /\ pc = "loop"
    /\ last.kind = "done"
    /\ last.lvl = 2
    /\ \E j \in 1..last.at : IsDone(data[j])

\* C15: a Done line never leaves the level below 1; a line that is neither
\* Done nor header leaves the level as it was; and the only handler that
\* takes a level of 1 or more back to 0 is that of a header line directly
\* followed by a "<...>" line (which inserts at level 0).
C15_DoneNeverReachesRoot ==
    (pc \in {"loop", "raised"} /\ last.kind # "none") =>
        /\ last.kind = "done" => lvl >= 1
        /\ last.kind \in {"keyvalue", "other"} => lvl = last.lvl
        /\ (last.kind = "header" /\ last.called /\ last.lvl >= 1 /\ last.section.level = 0) => last.annotated
        /\ (last.lvl >= 1 /\ pc = "loop") => lvl >= 1

\* A Done line was handled at level 1 and left the level at 1.
C15_Witness ==
    /\ pc = "loop"
    /\ last.kind = "done"
    /\ last.lvl = 1
    /\ lvl = 1
    /\ result # <<>>

\* C16: a header line that is the last line of the input is handled as a
\* header without annotation: its key is inserted and the pass goes on.
C16_FinalHeaderInserted ==
    (last.kind = "header" /\ last.at + 1 = Len(data)) =>
        /\ pc # "raised"
        /\ last.called
        /\ HasKey(ContainerAt(result, last.lvl), last.key)

\* C17: the level is never negative, and the append helper never raises its
\* "no level of nesting lower than 0" ValueError.
C17_LevelNeverNegative ==
    /\ lvl >= 0
    /\ (pc = "raised" /\ last.called /\ ~parsed_data.set) => exc # "ValueError"

\* A Done line was handled at level 0, where level - 1 would be negative.
C17_Witness ==
    /\ pc = "loop"
    /\ last.kind = "done"
    /\ last.lvl = 0
    /\ lvl = 1

\* A step of parseData's while loop: one iteration (lines 101-128), or the
\* exit from the loop into the code after it (lines 130-146).
LoopStep == DoneStep \/ HeaderStep \/ KeyValueStep \/ OtherStep \/ Finish

\* The program with a parseData whose loop, once entered, keeps running.
FairSpec == Init /\ [][Next]_vars /\ WF_vars(LoopStep)

\* The line pass is over: the loop has left with i = len(data), or an
\* insert (or the look-ahead) has failed.
LoopOver == pc = "raised" \/ (pc \in {"parsed", "done"} /\ i = Len(data))

\* C18: every handled line moves the index forward, by 2 when the header's
\* "<...>" line is consumed with it and by 1 otherwise, the index never
\* passes the number of lines, and the pass over the lines, once begun, ends.
C18_LoopTerminates ==
    /\ [][(pc = "loop" /\ pc' = "loop") =>
            /\ i' > i
            /\ i' = (IF IsHeader(Line(i)) /\ IsAnnotation(Line(i + 1)) THEN i + 2 ELSE i + 1)
            /\ i' <= Len(data)]_vars
    /\ (pc = "loop") ~> LoopOver

\* The pass ended without failure on an input where a header took its
\* "<...>" line with it.
C18_Witness ==
    /\ pc = "done"
    /\ i = Len(data)
    /\ \E j \in 1..(Len(data) - 1) : IsHeader(data[j]) /\ IsAnnotation(data[j + 1])

====
